---- MODULE Spec2Model ----
(***************************************************************************)
(* Model of the sealed-bid auction game of app.js: one game of the         *)
(* registry, its request handlers (join, start, bet, nextround, reset,     *)
(* state), the round settlement (completeRound) and the hide-results       *)
(* timer.                                                                  *)
(*                                                                         *)
(* A player's id is the player's position in game.players (the ids the     *)
(* code generates are distinct random strings).  roundsWon is counted in   *)
(* tenths of a win, so that the credits 1, 0.5, 0.4, 0.3, 0.2 are          *)
(* integers.                                                               *)
(***************************************************************************)
EXTENDS Integers, Sequences, FiniteSets, TLC

VARIABLES
    gameMode,          \* game.gameMode
    players,           \* game.players: sequence of [name, money, roundsWon, host]
    currentRound,      \* game.currentRound
    totalRounds,       \* game.totalRounds
    status,            \* game.status
    bets,              \* game.bets: player id -> amount
    roundWinners,      \* game.roundWinners: Null or a sequence of player ids
    overallWinner,     \* game.overallWinner: a player id, NoPlayer when unset
    lastRoundBets,     \* game.lastRoundBets
    showRoundResults,  \* game.showRoundResults
    secondHighestBid,  \* game.secondHighestBid, Undefined when unset
    thirdHighestBid,   \* game.thirdHighestBid, Undefined when unset
    actualPayments,    \* game.actualPayments
    timers,            \* pending hide-results timers (setTimeout of completeRound)
    response,          \* outcome of the last request: "ok" or "rejected"
    roundsAtStart      \* history: game.totalRounds when the game was last
                       \* started, Undefined before the first start

gameVars == <<gameMode, players, currentRound, totalRounds, status, bets,
              roundWinners, overallWinner, lastRoundBets, showRoundResults,
              secondHighestBid, thirdHighestBid, actualPayments>>

vars == <<gameMode, players, currentRound, totalRounds, status, bets,
          roundWinners, overallWinner, lastRoundBets, showRoundResults,
          secondHighestBid, thirdHighestBid, actualPayments, timers, response,
          roundsAtStart>>

----------------------------------------------------------------------------
(* Bounds of the specifications.                                           *)

\* SpecRound: at most MaxPlayersRound players.
MaxPlayersRound == 3
\* SpecWide: at most MaxPlayersWide players.
MaxPlayersWide == 5
\* Pending timers are counted up to MaxTimers ("MaxTimers or more").
MaxTimers == 2

\* Usernames are numbered.  Spec: the two users of whole games.
Usernames == {1, 2}
\* SpecLobby, SpecIdle, SpecThree: three users.
UsernamesThree == {1, 2, 3}
UsernamesRound == 1..MaxPlayersRound
UsernamesWide == 1..MaxPlayersWide

\* The amounts a bet request carries besides the refused ones.
Amounts == {0, 30, 100}
AmountsRound == {0, 10, 20, 30, 40, 50}
AmountsWide == {0, 10}
AmountsThree == {0, 100}
AmountsIdle == {0}

----------------------------------------------------------------------------
(* Values.                                                                 *)

Modes == {"all-pay", "standard", "vickrey"}

StartMoney == 100
\* one win, in tenths
WinUnit == 10
roundsToWin == 3 * WinUnit

Undefined == -1            \* an unset amount
NaN == -1000               \* parseInt's result on a non-number
NoPlayer == 0              \* null / undefined player reference
Null == <<NoPlayer>>       \* game.roundWinners when null or unset
EmptyMap == [x \in {} |-> 0]
Blank == 0                 \* an empty or all-blank username
NoUser == 0                \* a request whose session is not of this game

\* amounts the bet handler refuses whatever the balance is
InvalidAmounts == {NaN, 0 - 10, StartMoney + 10}

PlayerIds(ps) == 1..Len(ps)

----------------------------------------------------------------------------
(* Pure helpers of app.js.                                                 *)

getTotalRoundsForPlayerCount(playerCount) ==
    IF playerCount <= 2 THEN 5
    ELSE IF playerCount = 3 THEN 7
    ELSE 9

\* getFractionalWinAmount with the default reached one case early
getFractionalWinAmount_EarlyDefault(numWinners) ==
    IF numWinners <= 1 THEN WinUnit
    ELSE CASE numWinners = 2 -> 5
           [] numWinners = 3 -> 4
           [] OTHER -> 2

getFractionalWinAmount(numWinners) ==
    IF numWinners <= 1 THEN WinUnit
    ELSE CASE numWinners = 2 -> 5
           [] numWinners = 3 -> 4
           [] numWinners = 4 -> 3
           [] OTHER -> 2

\* shouldEndGame asking for more than roundsToWin wins
shouldEndGame_StrictWins(mode, ps, round, total) ==
    IF mode = "all-pay"
    THEN (\E i \in PlayerIds(ps) : ps[i].roundsWon > roundsToWin) \/ round >= total
    ELSE round >= total

\* shouldEndGame with the three-win rule in every mode
shouldEndGame_EveryMode(mode, ps, round, total) ==
    (\E i \in PlayerIds(ps) : ps[i].roundsWon >= roundsToWin) \/ round >= total

\* shouldEndGame with > in place of >= on the rounds
shouldEndGame_PastLastRound(mode, ps, round, total) ==
    IF mode = "all-pay"
    THEN (\E i \in PlayerIds(ps) : ps[i].roundsWon >= roundsToWin) \/ round > total
    ELSE round > total

shouldEndGame(mode, ps, round, total) ==
    IF mode = "all-pay"
    THEN (\E i \in PlayerIds(ps) : ps[i].roundsWon >= roundsToWin) \/ round >= total
    ELSE round >= total

\* Math.max(...xs) over a non-empty set of numbers
SetMax(S) == CHOOSE m \in S : \A x \in S : x <= m

\* ReduceByMoney with < in place of >
RECURSIVE ReduceByMoney_Least(_, _, _)
ReduceByMoney_Least(ps, prev, rest) ==
    IF rest = <<>> THEN prev
    ELSE ReduceByMoney_Least(ps,
                             IF ps[prev].money < ps[Head(rest)].money THEN prev ELSE Head(rest),
                             Tail(rest))

\* ReduceByMoney with >= in place of >
RECURSIVE ReduceByMoney_KeepsFirst(_, _, _)
ReduceByMoney_KeepsFirst(ps, prev, rest) ==
    IF rest = <<>> THEN prev
    ELSE ReduceByMoney_KeepsFirst(ps,
                                  IF ps[prev].money >= ps[Head(rest)].money THEN prev ELSE Head(rest),
                                  Tail(rest))

\* playersWithMostWins.reduce((prev, current) => prev.money > current.money ? prev : current)
RECURSIVE ReduceByMoney(_, _, _)
ReduceByMoney(ps, prev, rest) ==
    IF rest = <<>> THEN prev
    ELSE ReduceByMoney(ps,
                       IF ps[prev].money > ps[Head(rest)].money THEN prev ELSE Head(rest),
                       Tail(rest))

\* determineOverallWinner reducing all the players by money
determineOverallWinner_ByMoneyOnly(mode, ps) ==
    ReduceByMoney(ps, 1, Tail([i \in PlayerIds(ps) |-> i]))

\* The id of the player determineOverallWinner stores in game.overallWinner.
determineOverallWinner(mode, ps) ==
    LET ids == [i \in PlayerIds(ps) |-> i]
        with3 == SelectSeq(ids, LAMBDA i : ps[i].roundsWon >= roundsToWin)
        maxWins == SetMax({ps[i].roundsWon : i \in PlayerIds(ps)})
        playersWithMostWins == SelectSeq(ids, LAMBDA i : ps[i].roundsWon = maxWins)
    IN  IF mode = "all-pay" /\ with3 # <<>> THEN Head(with3)
        ELSE IF Len(playersWithMostWins) = 1 THEN playersWithMostWins[1]
        ELSE ReduceByMoney(ps, Head(playersWithMostWins), Tail(playersWithMostWins))

----------------------------------------------------------------------------
(* completeRound: ranking of the bids.                                     *)

\* Object.entries(game.bets).map(([playerId, amount]) => ({playerId, amount})),
\* the keys enumerated in the order `order`
Entries(b, order) ==
    [k \in 1..Len(order) |-> [playerId |-> order[k], amount |-> b[order[k]]]]

RECURSIVE InsertDesc(_, _)
InsertDesc(e, s) ==
    IF s = <<>> THEN <<e>>
    ELSE IF Head(s).amount >= e.amount THEN <<Head(s)>> \o InsertDesc(e, Tail(s))
    ELSE <<e>> \o s

RECURSIVE SortInto(_, _)
SortInto(acc, rest) ==
    IF rest = <<>> THEN acc
    ELSE SortInto(InsertDesc(Head(rest), acc), Tail(rest))

\* .sort((a, b) => b.amount - a.amount): stable, descending by amount
SortDesc(s) == SortInto(<<>>, s)

HighestBid(bids) == bids[1].amount

\* HighestBidders leaving out the bidders of 0
HighestBidders_PositiveOnly(bids) ==
    LET top == SelectSeq(bids, LAMBDA bid : bid.amount = HighestBid(bids) /\ bid.amount > 0)
    IN  [k \in 1..Len(top) |-> top[k].playerId]

HighestBidders(bids) ==
    LET top == SelectSeq(bids, LAMBDA bid : bid.amount = HighestBid(bids))
    IN  [k \in 1..Len(top) |-> top[k].playerId]

\* SecondHighestBid taking the second entry of the ranking
SecondHighestBid_SecondEntry(bids) ==
    IF Len(bids) > 1 THEN bids[2].amount ELSE Undefined

SecondHighestBid(bids) ==
    IF Len(bids) > 1
    THEN LET lower == SelectSeq(bids, LAMBDA bid : bid.amount < HighestBid(bids))
         IN  IF lower # <<>> THEN lower[1].amount ELSE Undefined
    ELSE Undefined

SeqRange(s) == {s[k] : k \in 1..Len(s)}

\* ThirdHighestBid taking the third entry of the ranking
ThirdHighestBid_ThirdEntry(bids) ==
    IF Len(bids) > 2 /\ Len(HighestBidders(bids)) > 1
    THEN bids[3].amount
    ELSE Undefined

ThirdHighestBid(bids) ==
    IF Len(bids) > 2 /\ Len(HighestBidders(bids)) > 1
    THEN LET nonWinnerBids ==
                 SelectSeq(bids, LAMBDA bid : bid.playerId \notin SeqRange(HighestBidders(bids)))
         IN  IF Len(nonWinnerBids) > 0 THEN nonWinnerBids[1].amount ELSE Undefined
    ELSE Undefined

----------------------------------------------------------------------------
(* completeRound: payments and win credit per auction mode.                *)

\* game.bets[player.id] || 0
BetOrZero(b, i) == IF i \in DOMAIN b THEN b[i] ELSE 0

\* VickreySinglePayment charging the winner's own bid
VickreySinglePayment_OwnBid(bids) == HighestBid(bids)

\* Vickrey, one highest bidder
VickreySinglePayment(bids) ==
    IF SecondHighestBid(bids) # Undefined THEN SecondHighestBid(bids) ELSE HighestBid(bids)

\* VickreyTiePayment charging the tied bid
VickreyTiePayment_OwnBid(bids) == HighestBid(bids)

\* Vickrey, tie for the highest bid
VickreyTiePayment(bids) ==
    IF ThirdHighestBid(bids) # Undefined THEN ThirdHighestBid(bids)
    ELSE IF SecondHighestBid(bids) # Undefined THEN SecondHighestBid(bids)
    ELSE 0

\* Payment with the All-Pay losers paying nothing
Payment_AllPayWinnersOnly(mode, b, bids, i) ==
    LET winners == SeqRange(HighestBidders(bids))
    IN  IF mode \in {"all-pay", "standard"}
        THEN IF i \in winners THEN HighestBid(bids) ELSE 0
        ELSE IF i \notin winners THEN 0
        ELSE IF Len(HighestBidders(bids)) = 1 THEN VickreySinglePayment(bids)
        ELSE VickreyTiePayment(bids)

\* Payment with the tied Standard winners sharing the price
Payment_StandardSplit(mode, b, bids, i) ==
    LET winners == SeqRange(HighestBidders(bids))
    IN  IF mode = "all-pay" THEN BetOrZero(b, i)
        ELSE IF mode = "standard"
             THEN IF i \in winners THEN HighestBid(bids) \div Len(HighestBidders(bids)) ELSE 0
        ELSE IF i \notin winners THEN 0
        ELSE IF Len(HighestBidders(bids)) = 1 THEN VickreySinglePayment(bids)
        ELSE VickreyTiePayment(bids)

\* what player i pays in the round (game.actualPayments[i])
Payment(mode, b, bids, i) ==
    LET winners == SeqRange(HighestBidders(bids))
    IN  IF mode = "all-pay" THEN BetOrZero(b, i)
        ELSE IF mode = "standard"
             THEN IF i \in winners THEN HighestBid(bids) ELSE 0
        ELSE IF i \notin winners THEN 0
        ELSE IF Len(HighestBidders(bids)) = 1 THEN VickreySinglePayment(bids)
        ELSE VickreyTiePayment(bids)

\* WinCredit with a full win for every tied winner
WinCredit_FullOnTie(bids, i) ==
    IF i \notin SeqRange(HighestBidders(bids)) THEN 0 ELSE WinUnit

\* WinCredit with the whole win for the first of the tied winners in the ranking
WinCredit_FirstOnTie(bids, i) ==
    IF i = bids[1].playerId THEN WinUnit ELSE 0

\* what is added to player i's roundsWon in the round
WinCredit(bids, i) ==
    IF i \notin SeqRange(HighestBidders(bids)) THEN 0
    ELSE IF Len(HighestBidders(bids)) = 1 THEN WinUnit
    ELSE getFractionalWinAmount(Len(HighestBidders(bids)))

\* game.players after the balance and roundsWon updates of completeRound
SettledPlayers(mode, ps, b, bids) ==
    [i \in PlayerIds(ps) |->
        [ps[i] EXCEPT !.money = @ - Payment(mode, b, bids, i),
                      !.roundsWon = @ + WinCredit(bids, i)]]

\* SettledPayments recording every player's bid
SettledPayments_RecordsBids(mode, ps, b, bids) ==
    [i \in PlayerIds(ps) |-> BetOrZero(b, i)]

SettledPayments(mode, ps, b, bids) ==
    [i \in PlayerIds(ps) |-> Payment(mode, b, bids, i)]

\* setTimeout(..., 5000) of completeRound: one more pending timer
ScheduleTimer(n) == IF n < MaxTimers THEN n + 1 ELSE MaxTimers

\* CompleteRound leaving the end of the game to the next advance
CompleteRound_NoEndCheck(b, order) ==
    LET bids == SortDesc(Entries(b, order))
    IN  /\ lastRoundBets' = b
        /\ showRoundResults' = TRUE
        /\ timers' = ScheduleTimer(timers)
        /\ status' = "roundComplete"
        /\ secondHighestBid' = SecondHighestBid(bids)
        /\ thirdHighestBid' = ThirdHighestBid(bids)
        /\ actualPayments' = SettledPayments(gameMode, players, b, bids)
        /\ players' = SettledPlayers(gameMode, players, b, bids)
        /\ roundWinners' = HighestBidders(bids)
        /\ UNCHANGED overallWinner

\* completeRound(game), game.bets being b and its keys enumerated in `order`
CompleteRound(b, order) ==
    LET bids == SortDesc(Entries(b, order))
        ps == SettledPlayers(gameMode, players, b, bids)
    IN  /\ lastRoundBets' = b
        /\ showRoundResults' = TRUE
        /\ timers' = ScheduleTimer(timers)
        /\ IF Len(bids) = 0
           THEN /\ status' = "roundComplete"
                /\ roundWinners' = <<>>
                /\ UNCHANGED <<players, secondHighestBid, thirdHighestBid,
                               actualPayments, overallWinner>>
           ELSE /\ secondHighestBid' = SecondHighestBid(bids)
                /\ thirdHighestBid' = ThirdHighestBid(bids)
                /\ actualPayments' = SettledPayments(gameMode, players, b, bids)
                /\ players' = ps
                /\ roundWinners' = HighestBidders(bids)
                /\ IF shouldEndGame(gameMode, ps, currentRound, totalRounds)
                   THEN /\ status' = "gameComplete"
                        /\ overallWinner' = determineOverallWinner(gameMode, ps)
                   ELSE /\ status' = "roundComplete"
                        /\ UNCHANGED overallWinner

----------------------------------------------------------------------------
(* Request handlers.                                                       *)

\* the find of game.players.find(p => p.id === user.playerId) succeeds
IsPlayer(c) == c \in PlayerIds(players)

IsHost(c) == IsPlayer(c) /\ players[c].host

\* an early return of a handler: an error response, nothing else changes
Reject ==
    /\ response' = "rejected"
    /\ UNCHANGED <<gameVars, timers, roundsAtStart>>

\* NameTaken looking at the host's name only
NameTaken_HostOnly(name) == players[1].name = name

NameTaken(name) == \E i \in PlayerIds(players) : players[i].name = name

\* JoinGame without the recomputation of game.totalRounds
JoinGame_KeepsTotalRounds(name) ==
    IF name = Blank \/ status # "waiting" \/ NameTaken(name)
    THEN Reject
    ELSE /\ players' = Append(players, [name |-> name, money |-> StartMoney,
                                        roundsWon |-> 0, host |-> FALSE])
         /\ response' = "ok"
         /\ UNCHANGED <<gameMode, currentRound, totalRounds, status, bets, roundWinners,
                        overallWinner, lastRoundBets, showRoundResults,
                        secondHighestBid, thirdHighestBid, actualPayments, timers,
                        roundsAtStart>>

\* JoinGame giving the new player the host flag
JoinGame_AsHost(name) ==
    IF name = Blank \/ status # "waiting" \/ NameTaken(name)
    THEN Reject
    ELSE /\ players' = Append(players, [name |-> name, money |-> StartMoney,
                                        roundsWon |-> 0, host |-> TRUE])
         /\ totalRounds' = getTotalRoundsForPlayerCount(Len(players) + 1)
         /\ response' = "ok"
         /\ UNCHANGED <<gameMode, currentRound, status, bets, roundWinners,
                        overallWinner, lastRoundBets, showRoundResults,
                        secondHighestBid, thirdHighestBid, actualPayments, timers,
                        roundsAtStart>>

\* POST /game/join
JoinGame(name) ==
    IF name = Blank \/ status # "waiting" \/ NameTaken(name)
    THEN Reject
    ELSE /\ players' = Append(players, [name |-> name, money |-> StartMoney,
                                        roundsWon |-> 0, host |-> FALSE])
         /\ totalRounds' = getTotalRoundsForPlayerCount(Len(players) + 1)
         /\ response' = "ok"
         /\ UNCHANGED <<gameMode, currentRound, status, bets, roundWinners,
                        overallWinner, lastRoundBets, showRoundResults,
                        secondHighestBid, thirdHighestBid, actualPayments, timers,
                        roundsAtStart>>

\* StartGame without the check of the number of players
StartGame_AnyPlayerCount(c) ==
    IF c = NoUser \/ ~IsHost(c) \/ status # "waiting"
    THEN Reject
    ELSE /\ status' = "betting"
         /\ currentRound' = 1
         /\ bets' = EmptyMap
         /\ response' = "ok"
         /\ roundsAtStart' = totalRounds
         /\ UNCHANGED <<gameMode, players, totalRounds, roundWinners, overallWinner,
                        lastRoundBets, showRoundResults, secondHighestBid,
                        thirdHighestBid, actualPayments, timers>>

\* POST /game/:gameId/start
StartGame(c) ==
    IF c = NoUser \/ ~IsHost(c) \/ Len(players) < 2 \/ status # "waiting"
    THEN Reject
    ELSE /\ status' = "betting"
         /\ currentRound' = 1
         /\ bets' = EmptyMap
         /\ response' = "ok"
         /\ roundsAtStart' = totalRounds
         /\ UNCHANGED <<gameMode, players, totalRounds, roundWinners, overallWinner,
                        lastRoundBets, showRoundResults, secondHighestBid,
                        thirdHighestBid, actualPayments, timers>>

\* InvalidBetAmount without the comparison with the bidder's money
InvalidBetAmount_NoMoneyCheck(c, amount) ==
    amount = NaN \/ amount < 0

\* InvalidBetAmount without the sign check
InvalidBetAmount_NoSignCheck(c, amount) ==
    amount = NaN \/ amount > players[c].money

\* InvalidBetAmount refusing a bid of 0
InvalidBetAmount_PositiveOnly(c, amount) ==
    amount = NaN \/ amount <= 0 \/ amount > players[c].money

\* isNaN(betAmount) || betAmount < 0 || betAmount > player.money
InvalidBetAmount(c, amount) ==
    amount = NaN \/ amount < 0 \/ amount > players[c].money

\* game.bets[player.id] = betAmount
RecordBid(b, c, amount) ==
    [i \in DOMAIN b \cup {c} |-> IF i = c THEN amount ELSE b[i]]

\* The orders in which Object.entries can enumerate the keys of game.bets when
\* c's key was added last: insertion order, the other players having bid in
\* any order.
KeyOrders(b, c) ==
    {order \in Permutations(DOMAIN b) : order[Cardinality(DOMAIN b)] = c}

\* AllPlayersHaveBet with some in place of every
AllPlayersHaveBet_Some(b) == \E i \in PlayerIds(players) : i \in DOMAIN b

\* AllPlayersHaveBet never holding
AllPlayersHaveBet_Never(b) == FALSE

\* game.players.every(p => game.bets[p.id] !== undefined)
AllPlayersHaveBet(b) == \A i \in PlayerIds(players) : i \in DOMAIN b

\* PlaceBid without the check that the player has not bid this round
PlaceBid_Rebid(c, amount) ==
    IF \/ c = NoUser
       \/ ~IsPlayer(c)
       \/ status # "betting"
       \/ InvalidBetAmount(c, amount)
    THEN Reject
    ELSE LET b == RecordBid(bets, c, amount)
         IN  /\ bets' = b
             /\ response' = "ok"
             /\ UNCHANGED <<gameMode, currentRound, totalRounds, roundsAtStart>>
             /\ IF AllPlayersHaveBet(b)
                THEN \E order \in KeyOrders(b, c) : CompleteRound(b, order)
                ELSE UNCHANGED <<players, status, roundWinners, overallWinner,
                                 lastRoundBets, showRoundResults, secondHighestBid,
                                 thirdHighestBid, actualPayments, timers>>

\* POST /game/:gameId/bet
PlaceBid(c, amount) ==
    IF \/ c = NoUser
       \/ ~IsPlayer(c)
       \/ status # "betting"
       \/ c \in DOMAIN bets
       \/ InvalidBetAmount(c, amount)
    THEN Reject
    ELSE LET b == RecordBid(bets, c, amount)
         IN  /\ bets' = b
             /\ response' = "ok"
             /\ UNCHANGED <<gameMode, currentRound, totalRounds, roundsAtStart>>
             /\ IF AllPlayersHaveBet(b)
                THEN \E order \in KeyOrders(b, c) : CompleteRound(b, order)
                ELSE UNCHANGED <<players, status, roundWinners, overallWinner,
                                 lastRoundBets, showRoundResults, secondHighestBid,
                                 thirdHighestBid, actualPayments, timers>>

\* NextRound open to every player of the game
NextRound_AnyPlayer(c) ==
    IF c = NoUser \/ ~IsPlayer(c) \/ status # "roundComplete"
    THEN Reject
    ELSE IF shouldEndGame(gameMode, players, currentRound, totalRounds)
    THEN /\ status' = "gameComplete"
         /\ overallWinner' = determineOverallWinner(gameMode, players)
         /\ response' = "ok"
         /\ UNCHANGED <<gameMode, players, currentRound, totalRounds, bets,
                        roundWinners, lastRoundBets, showRoundResults,
                        secondHighestBid, thirdHighestBid, actualPayments, timers,
                        roundsAtStart>>
    ELSE /\ currentRound' = currentRound + 1
         /\ status' = "betting"
         /\ bets' = EmptyMap
         /\ roundWinners' = Null
         /\ showRoundResults' = FALSE
         /\ response' = "ok"
         /\ UNCHANGED <<gameMode, players, totalRounds, overallWinner, lastRoundBets,
                        secondHighestBid, thirdHighestBid, actualPayments, timers,
                        roundsAtStart>>

\* NextRound adding 2 to game.currentRound
NextRound_SkipsRound(c) ==
    IF c = NoUser \/ ~IsHost(c) \/ status # "roundComplete"
    THEN Reject
    ELSE IF shouldEndGame(gameMode, players, currentRound, totalRounds)
    THEN /\ status' = "gameComplete"
         /\ overallWinner' = determineOverallWinner(gameMode, players)
         /\ response' = "ok"
         /\ UNCHANGED <<gameMode, players, currentRound, totalRounds, bets,
                        roundWinners, lastRoundBets, showRoundResults,
                        secondHighestBid, thirdHighestBid, actualPayments, timers,
                        roundsAtStart>>
    ELSE /\ currentRound' = currentRound + 2
         /\ status' = "betting"
         /\ bets' = EmptyMap
         /\ roundWinners' = Null
         /\ showRoundResults' = FALSE
         /\ response' = "ok"
         /\ UNCHANGED <<gameMode, players, totalRounds, overallWinner, lastRoundBets,
                        secondHighestBid, thirdHighestBid, actualPayments, timers,
                        roundsAtStart>>

\* NextRound giving every player the starting money back
NextRound_RestoresMoney(c) ==
    IF c = NoUser \/ ~IsHost(c) \/ status # "roundComplete"
    THEN Reject
    ELSE IF shouldEndGame(gameMode, players, currentRound, totalRounds)
    THEN /\ status' = "gameComplete"
         /\ overallWinner' = determineOverallWinner(gameMode, players)
         /\ response' = "ok"
         /\ UNCHANGED <<gameMode, players, currentRound, totalRounds, bets,
                        roundWinners, lastRoundBets, showRoundResults,
                        secondHighestBid, thirdHighestBid, actualPayments, timers,
                        roundsAtStart>>
    ELSE /\ currentRound' = currentRound + 1
         /\ status' = "betting"
         /\ bets' = EmptyMap
         /\ roundWinners' = Null
         /\ showRoundResults' = FALSE
         /\ players' = [i \in PlayerIds(players) |->
                           [players[i] EXCEPT !.money = StartMoney]]
         /\ response' = "ok"
         /\ UNCHANGED <<gameMode, totalRounds, overallWinner, lastRoundBets,
                        secondHighestBid, thirdHighestBid, actualPayments, timers,
                        roundsAtStart>>

\* POST /game/:gameId/nextround
NextRound(c) ==
    IF c = NoUser \/ ~IsHost(c) \/ status # "roundComplete"
    THEN Reject
    ELSE IF shouldEndGame(gameMode, players, currentRound, totalRounds)
    THEN /\ status' = "gameComplete"
         /\ overallWinner' = determineOverallWinner(gameMode, players)
         /\ response' = "ok"
         /\ UNCHANGED <<gameMode, players, currentRound, totalRounds, bets,
                        roundWinners, lastRoundBets, showRoundResults,
                        secondHighestBid, thirdHighestBid, actualPayments, timers,
                        roundsAtStart>>
    ELSE /\ currentRound' = currentRound + 1
         /\ status' = "betting"
         /\ bets' = EmptyMap
         /\ roundWinners' = Null
         /\ showRoundResults' = FALSE
         /\ response' = "ok"
         /\ UNCHANGED <<gameMode, players, totalRounds, overallWinner, lastRoundBets,
                        secondHighestBid, thirdHighestBid, actualPayments, timers,
                        roundsAtStart>>

\* ResetGame putting game.totalRounds back to the value of a new game
ResetGame_NewGameRounds(c) ==
    IF c = NoUser \/ ~IsHost(c)
    THEN Reject
    ELSE /\ players' = [i \in PlayerIds(players) |->
                           [players[i] EXCEPT !.money = StartMoney, !.roundsWon = 0]]
         /\ currentRound' = 0
         /\ totalRounds' = getTotalRoundsForPlayerCount(1)
         /\ status' = "waiting"
         /\ bets' = EmptyMap
         /\ roundWinners' = Null
         /\ overallWinner' = NoPlayer
         /\ lastRoundBets' = EmptyMap
         /\ showRoundResults' = FALSE
         /\ secondHighestBid' = Undefined
         /\ actualPayments' = EmptyMap
         /\ response' = "ok"
         /\ UNCHANGED <<gameMode, thirdHighestBid, timers, roundsAtStart>>

\* ResetGame without game.overallWinner = null
ResetGame_KeepsWinner(c) ==
    IF c = NoUser \/ ~IsHost(c)
    THEN Reject
    ELSE /\ players' = [i \in PlayerIds(players) |->
                           [players[i] EXCEPT !.money = StartMoney, !.roundsWon = 0]]
         /\ currentRound' = 0
         /\ status' = "waiting"
         /\ bets' = EmptyMap
         /\ roundWinners' = Null
         /\ lastRoundBets' = EmptyMap
         /\ showRoundResults' = FALSE
         /\ secondHighestBid' = Undefined
         /\ actualPayments' = EmptyMap
         /\ response' = "ok"
         /\ UNCHANGED <<gameMode, totalRounds, overallWinner, thirdHighestBid, timers,
                        roundsAtStart>>

\* ResetGame without player.roundsWon = 0
ResetGame_KeepsRoundsWon(c) ==
    IF c = NoUser \/ ~IsHost(c)
    THEN Reject
    ELSE /\ players' = [i \in PlayerIds(players) |->
                           [players[i] EXCEPT !.money = StartMoney]]
         /\ currentRound' = 0
         /\ status' = "waiting"
         /\ bets' = EmptyMap
         /\ roundWinners' = Null
         /\ overallWinner' = NoPlayer
         /\ lastRoundBets' = EmptyMap
         /\ showRoundResults' = FALSE
         /\ secondHighestBid' = Undefined
         /\ actualPayments' = EmptyMap
         /\ response' = "ok"
         /\ UNCHANGED <<gameMode, totalRounds, thirdHighestBid, timers, roundsAtStart>>

\* ResetGame refused while the game is not complete
ResetGame_OnlyWhenComplete(c) ==
    IF c = NoUser \/ ~IsHost(c) \/ status # "gameComplete"
    THEN Reject
    ELSE /\ players' = [i \in PlayerIds(players) |->
                           [players[i] EXCEPT !.money = StartMoney, !.roundsWon = 0]]
         /\ currentRound' = 0
         /\ status' = "waiting"
         /\ bets' = EmptyMap
         /\ roundWinners' = Null
         /\ overallWinner' = NoPlayer
         /\ lastRoundBets' = EmptyMap
         /\ showRoundResults' = FALSE
         /\ secondHighestBid' = Undefined
         /\ actualPayments' = EmptyMap
         /\ response' = "ok"
         /\ UNCHANGED <<gameMode, totalRounds, thirdHighestBid, timers, roundsAtStart>>

\* POST /game/:gameId/reset
ResetGame(c) ==
    IF c = NoUser \/ ~IsHost(c)
    THEN Reject
    ELSE /\ players' = [i \in PlayerIds(players) |->
                           [players[i] EXCEPT !.money = StartMoney, !.roundsWon = 0]]
         /\ currentRound' = 0
         /\ status' = "waiting"
         /\ bets' = EmptyMap
         /\ roundWinners' = Null
         /\ overallWinner' = NoPlayer
         /\ lastRoundBets' = EmptyMap
         /\ showRoundResults' = FALSE
         /\ secondHighestBid' = Undefined
         /\ actualPayments' = EmptyMap
         /\ response' = "ok"
         /\ UNCHANGED <<gameMode, totalRounds, thirdHighestBid, timers, roundsAtStart>>

\* GameStateOf with the ledger itself among the fields
GameStateOf_WithLedger(c, b) ==
    [players |-> [i \in PlayerIds(players) |->
                     [id |-> i, name |-> players[i].name, money |-> players[i].money,
                      roundsWon |-> players[i].roundsWon, host |-> players[i].host,
                      hasBet |-> i \in DOMAIN b]],
     status |-> status,
     bets |-> b,
     myBet |-> IF c \in DOMAIN b THEN b[c] ELSE Undefined]

\* The gameState object GET /game/:gameId/state sends to player c when the
\* ledger is b.
GameStateOf(c, b) ==
    [players |-> [i \in PlayerIds(players) |->
                     [id |-> i, name |-> players[i].name, money |-> players[i].money,
                      roundsWon |-> players[i].roundsWon, host |-> players[i].host,
                      hasBet |-> i \in DOMAIN b]],
     currentRound |-> currentRound,
     totalRounds |-> totalRounds,
     roundsToWin |-> roundsToWin,
     status |-> status,
     gameMode |-> gameMode,
     roundWinners |-> roundWinners,
     overallWinner |-> IF overallWinner # NoPlayer
                       THEN <<overallWinner, players[overallWinner].name,
                              players[overallWinner].roundsWon,
                              players[overallWinner].money>>
                       ELSE Null,
     myBet |-> IF c \in DOMAIN b THEN b[c] ELSE Undefined,
     isMyTurn |-> status = "betting" /\ c \notin DOMAIN b,
     amHost |-> players[c].host,
     lastRoundBets |-> lastRoundBets,
     showRoundResults |-> showRoundResults,
     secondHighestBid |-> secondHighestBid,
     actualPayments |-> actualPayments]

GameState(c) == GameStateOf(c, bets)

\* GET /game/:gameId/state
GetState(c) ==
    IF c = NoUser \/ ~IsPlayer(c)
    THEN Reject
    ELSE /\ response' = "ok"
         /\ UNCHANGED <<gameVars, timers, roundsAtStart>>

\* the callback of completeRound's setTimeout: the oldest pending timer fires
HideRoundResults ==
    /\ timers > 0
    /\ showRoundResults' = FALSE
    /\ timers' \in (IF timers = MaxTimers THEN {timers - 1, timers} ELSE {timers - 1})
    /\ UNCHANGED <<gameMode, players, currentRound, totalRounds, status, bets,
                   roundWinners, overallWinner, lastRoundBets, secondHighestBid,
                   thirdHighestBid, actualPayments, response, roundsAtStart>>

----------------------------------------------------------------------------
(* Specifications.                                                         *)

\* POST /game/create by a host named 1, in any of the three modes
Init ==
    /\ gameMode \in Modes
    /\ players = <<[name |-> 1, money |-> StartMoney, roundsWon |-> 0, host |-> TRUE]>>
    /\ currentRound = 0
    /\ totalRounds = getTotalRoundsForPlayerCount(1)
    /\ status = "waiting"
    /\ bets = EmptyMap
    /\ roundWinners = Null
    /\ overallWinner = NoPlayer
    /\ lastRoundBets = EmptyMap
    /\ showRoundResults = FALSE
    /\ secondHighestBid = Undefined
    /\ thirdHighestBid = Undefined
    /\ actualPayments = EmptyMap
    /\ timers = 0
    /\ response = "ok"
    /\ roundsAtStart = Undefined

\* the usernames a join tries: blank, the names already taken and the first
\* name of `names` that is still free
JoinNames(names) == {Blank} \cup {n \in names : n <= Len(players) + 1}

\* the sessions a request can come with: none of this game, or one of the users
Callers(names) == {NoUser} \cup names

\* the requests of the users `names`, bidding amounts out of `amounts`, up to
\* the settlement of the first round of a new game: the host neither advances
\* nor resets
FirstRoundRequests(names, amounts) ==
    \/ \E name \in JoinNames(names) : JoinGame(name)
    \/ \E c \in Callers(names) : StartGame(c)
    \/ \E c \in Callers(names), amount \in amounts \cup InvalidAmounts :
          PlaceBid(c, amount)
    \/ \E c \in Callers(names) : GetState(c)
    \/ HideRoundResults

\* the requests of the users `names`, bidding amounts out of `amounts`
Requests(names, amounts) ==
    \/ FirstRoundRequests(names, amounts)
    \/ \E c \in Callers(names) : NextRound(c)
    \/ \E c \in Callers(names) : ResetGame(c)

\* whole games of the users Usernames
Next == Requests(Usernames, Amounts)

Spec == Init /\ [][Next]_vars

\* first rounds of new games of up to MaxPlayersRound players
NextRoundSpec == FirstRoundRequests(UsernamesRound, AmountsRound)

SpecRound == Init /\ [][NextRoundSpec]_vars

\* first rounds of new games of up to MaxPlayersWide players
NextWide == FirstRoundRequests(UsernamesWide, AmountsWide)

SpecWide == Init /\ [][NextWide]_vars

\* first rounds of the games of three users, which the host may reset to the
\* lobby at any time
NextLobby ==
    \/ FirstRoundRequests(UsernamesThree, AmountsWide)
    \/ \E c \in Callers(UsernamesThree) : ResetGame(c)

SpecLobby == Init /\ [][NextLobby]_vars

\* whole games of three users who never bid more than 0
NextIdle == Requests(UsernamesThree, AmountsIdle)

SpecIdle == Init /\ [][NextIdle]_vars

\* whole games of three users, played without a reset and faster than the
\* hide-results timers fire
NextThree ==
    \/ \E name \in JoinNames(UsernamesThree) : JoinGame(name)
    \/ \E c \in Callers(UsernamesThree) : StartGame(c)
    \/ \E c \in Callers(UsernamesThree), amount \in AmountsThree \cup InvalidAmounts :
          PlaceBid(c, amount)
    \/ \E c \in Callers(UsernamesThree) : GetState(c)
    \/ \E c \in Callers(UsernamesThree) : NextRound(c)

SpecThree == Init /\ [][NextThree]_vars

\* a bet request that is accepted
AcceptedBid ==
    \E c \in Usernames, amount \in AmountsThree : PlaceBid(c, amount) /\ bets' # bets

\* a nextround request that is accepted
AcceptedAdvance ==
    \E c \in Usernames : NextRound(c) /\ status' # status

\* whole games of the users Usernames that are never reset, in which a player
\* who has not bid keeps bidding until a bid is accepted and the host
\* advances every completed round
NextLive ==
    \/ FirstRoundRequests(Usernames, AmountsThree)
    \/ \E c \in Callers(Usernames) : NextRound(c)

SpecLive ==
    /\ Init
    /\ [][NextLive]_vars
    /\ WF_vars(AcceptedBid)
    /\ WF_vars(AcceptedAdvance)

\* SpecFour: four users.
UsernamesFour == {1, 2, 3, 4}

\* the amounts the users of SpecFour bid: user 1 bids 0 or 10, user 2 bids 5
\* or 10, users 3 and 4 always bid 5
AmountsFour(c) ==
    CASE c = 1 -> {0, 10}
      [] c = 2 -> {5, 10}
      [] OTHER -> {5}

\* POST /game/create by a host named 1, in All-Pay mode
InitAllPay == Init /\ gameMode = "all-pay"

\* whole All-Pay games of four users, played without a reset and faster than
\* the hide-results timers fire
NextFour ==
    \/ \E name \in JoinNames(UsernamesFour) : JoinGame(name)
    \/ \E c \in Callers(UsernamesFour) : StartGame(c)
    \/ \E c \in Callers(UsernamesFour) : \E amount \in AmountsFour(c) :
          PlaceBid(c, amount)
    \/ \E c \in Callers(UsernamesFour) : NextRound(c)

SpecFour == InitAllPay /\ [][NextFour]_vars

----------------------------------------------------------------------------
(* Properties.                                                             *)

\* a step of the bet handler that runs completeRound
SettlementStep ==
    status = "betting" /\ status' \in {"roundComplete", "gameComplete"}

\* every player of the game has an entry in the ledger
LedgerClosed == \A i \in PlayerIds(players) : i \in DOMAIN bets

RoundOver == status \in {"roundComplete", "gameComplete"}

\* C1: settlement runs exactly once per round, in the request that records the
\* last missing bid: the status is never 'betting' with a closed ledger, a
\* round is over only with a closed ledger, the request that closes the ledger
\* settles it (the results are stored, the status becomes roundComplete or
\* gameComplete), and while the round is over no bid is recorded and no
\* balance or win count moves until a start, advance or reset opens a new one.
C1_SettledOncePerRound ==
    /\ [](status = "betting" => ~LedgerClosed)
    /\ [](RoundOver => LedgerClosed /\ lastRoundBets = bets)
    /\ [][(status = "betting" /\ (\A i \in PlayerIds(players) : i \in DOMAIN bets'))
             => SettlementStep /\ lastRoundBets' = bets' /\ showRoundResults']_vars
    /\ [][RoundOver
             => \/ bets' = bets /\ players' = players /\ RoundOver'
                \/ bets' = EmptyMap /\ status' \in {"betting", "waiting"}]_vars

\* a second or later round has been settled and the game goes on
C1_Witness ==
    /\ status = "roundComplete"
    /\ currentRound >= 2
    /\ LedgerClosed
    /\ response = "ok"

\* C2: every player's money is >= 0 in every reachable state, in every mode.
C2_MoneyNonNegative ==
    \A i \in PlayerIds(players) : players[i].money >= 0

\* a settlement has taken a player's whole balance
C2_Witness ==
    /\ RoundOver
    /\ \E i \in PlayerIds(players) :
          players[i].money = 0 /\ actualPayments[i] > 0

\* the conditions under which the claim says a bid is accepted
BidAcceptable(c, amount) ==
    /\ status = "betting"
    /\ c \in PlayerIds(players)
    /\ c \notin DOMAIN bets
    /\ amount # NaN
    /\ 0 <= amount
    /\ amount <= players[c].money

\* C3: a bet request is rejected and changes nothing of the game unless the
\* status is 'betting', the caller is a player, the caller has no bid this
\* round and 0 <= amount <= the caller's money; when all hold, the bid is
\* recorded.  Conversely the ledger only ever gains an entry this way.
C3_BidValidation ==
    /\ [][\A c \in Callers(Usernames), amount \in Amounts \cup InvalidAmounts :
            PlaceBid(c, amount) =>
               IF BidAcceptable(c, amount)
               THEN /\ c \in DOMAIN bets'
                    /\ bets'[c] = amount
                    /\ \A i \in DOMAIN bets : bets'[i] = bets[i]
                    /\ response' = "ok"
               ELSE /\ UNCHANGED <<gameVars, timers>>
                    /\ response' = "rejected"]_vars
    /\ [][\A c \in DOMAIN bets' \ DOMAIN bets :
            BidAcceptable(c, bets'[c]) /\ DOMAIN bets' = DOMAIN bets \cup {c}]_vars

\* a bid was refused in the middle of a round, after another one was recorded
C3_Witness ==
    /\ status = "betting"
    /\ bets # EmptyMap
    /\ response = "rejected"

----------------------------------------------------------------------------
(* Settlement properties.  They are stated on the step that closes the     *)
(* ledger: bets' is the closed ledger, players the balances before the     *)
(* settlement and players' the balances after it.                          *)

\* the greatest amount of a non-empty ledger
TopBid(b) == SetMax({b[i] : i \in DOMAIN b})

\* the players whose bid is the greatest
TopBidders(b) == {i \in DOMAIN b : b[i] = TopBid(b)}

\* what player i paid, and the credit player i got, in the step
Paid(i) == players[i].money - players'[i].money
Credited(i) == players'[i].roundsWon - players[i].roundsWon

\* C4: All-Pay settlement: every player, winner or loser, ends with the money
\* they had minus their own bid of the round.
C4_AllPayEveryonePays ==
    [][(SettlementStep /\ gameMode = "all-pay")
          => \A i \in PlayerIds(players) :
                players'[i].money = players[i].money - bets'[i]]_vars

\* an All-Pay round in which a loser paid a positive bid
C4_Witness ==
    /\ gameMode = "all-pay"
    /\ status = "roundComplete"
    /\ currentRound = 1
    /\ \E i \in PlayerIds(players) :
          /\ i \notin TopBidders(lastRoundBets)
          /\ lastRoundBets[i] > 0
          /\ players[i].money = StartMoney - lastRoundBets[i]

\* C5: Standard settlement: a player who is not a highest bidder keeps their
\* money, and every highest bidder, alone or tied, loses exactly their own bid.
C5_StandardWinnersPayOwnBid ==
    [][(SettlementStep /\ gameMode = "standard")
          => \A i \in PlayerIds(players) :
                Paid(i) = IF i \in TopBidders(bets') THEN bets'[i] ELSE 0]_vars

\* a Standard round with two tied winners of a positive bid and a loser with a
\* positive bid
C5_Witness ==
    /\ gameMode = "standard"
    /\ status = "roundComplete"
    /\ currentRound = 1
    /\ Cardinality(TopBidders(lastRoundBets)) = 2
    /\ \A i \in PlayerIds(players) :
          /\ lastRoundBets[i] > 0
          /\ players[i].money = IF i \in TopBidders(lastRoundBets)
                                THEN StartMoney - lastRoundBets[i] ELSE StartMoney

\* C6: Vickrey settlement with exactly one highest bidder: the winner pays the
\* greatest bid strictly below their own, every other player pays 0.
C6_VickreySingleWinner ==
    [][(SettlementStep /\ gameMode = "vickrey" /\ Cardinality(TopBidders(bets')) = 1)
          => \A i \in PlayerIds(players) :
                Paid(i) = IF i \in TopBidders(bets')
                          THEN SetMax({bets'[j] : j \in DOMAIN bets' \ {i}})
                          ELSE 0]_vars

\* the bids 50, 30, 10: the winner has paid 30
C6_Witness ==
    /\ gameMode = "vickrey"
    /\ status = "roundComplete"
    /\ currentRound = 1
    /\ lastRoundBets = <<50, 30, 10>>
    /\ players[1].money = StartMoney - 30
    /\ players[2].money = StartMoney
    /\ players[3].money = StartMoney
    /\ secondHighestBid = 30

\* C7: Vickrey settlement with a tie for the highest bid: every tied winner
\* pays the third-highest bid if it exists, else the second-highest bid, else
\* 0, the third-highest bid being the greatest bid of the players outside the
\* tie; the other players pay 0.
C7_VickreyTie ==
    [][(SettlementStep /\ gameMode = "vickrey" /\ Cardinality(TopBidders(bets')) > 1)
          => LET others == DOMAIN bets' \ TopBidders(bets')
                 price == IF thirdHighestBid' # Undefined THEN thirdHighestBid'
                          ELSE IF secondHighestBid' # Undefined THEN secondHighestBid'
                          ELSE 0
             IN  /\ price = IF others # {} THEN SetMax({bets'[j] : j \in others}) ELSE 0
                 /\ \A i \in PlayerIds(players) :
                       Paid(i) = IF i \in TopBidders(bets') THEN price ELSE 0]_vars

\* the bids 40, 40, 20: both winners have paid 20
C7_Witness ==
    /\ gameMode = "vickrey"
    /\ status = "roundComplete"
    /\ currentRound = 1
    /\ lastRoundBets = <<40, 40, 20>>
    /\ players[1].money = StartMoney - 20
    /\ players[2].money = StartMoney - 20
    /\ players[3].money = StartMoney
    /\ thirdHighestBid = 20

\* C8: Vickrey, as the in-game rules state it: when only one player bids
\* more than 0, the winner pays their full bid.
C8_VickreyOnlyBidderPaysFullBid ==
    [][(/\ SettlementStep
        /\ gameMode = "vickrey"
        /\ Cardinality({i \in DOMAIN bets' : bets'[i] > 0}) = 1)
          => \A i \in TopBidders(bets') : Paid(i) = bets'[i]]_vars

\* the credit of the table for k tied winners, in tenths of a win
TableCredit(k) ==
    CASE k = 1 -> 10
      [] k = 2 -> 5
      [] k = 3 -> 4
      [] k = 4 -> 3
      [] k >= 5 -> 2

\* C9: in every mode a settlement with k tied highest bidders adds the table
\* value for k (1, 0.5, 0.4, 0.3, 0.2 for 5 or more) to the roundsWon of each
\* highest bidder and leaves every other player's roundsWon unchanged.
C9_FractionalCredit ==
    [][SettlementStep
          => \A i \in PlayerIds(players) :
                Credited(i) = IF i \in TopBidders(bets')
                              THEN TableCredit(Cardinality(TopBidders(bets')))
                              ELSE 0]_vars

\* five players tied in the first round: 0.2 of a win each
C9_Witness ==
    /\ status = "roundComplete"
    /\ currentRound = 1
    /\ Len(players) = 5
    /\ Cardinality(TopBidders(lastRoundBets)) = 5
    /\ \A i \in PlayerIds(players) : players[i].roundsWon = 2

\* the win credit the players 1..n gained from the balances ps to qs
RECURSIVE CreditSum(_, _, _)
CreditSum(ps, qs, n) ==
    IF n = 0 THEN 0
    ELSE (qs[n].roundsWon - ps[n].roundsWon) + CreditSum(ps, qs, n - 1)

\* C10 as stated: the win credit awarded in a round sums to at most 1.
C10_CreditAtMostOne ==
    [][SettlementStep => CreditSum(players, players', Len(players)) <= WinUnit]_vars

\* C10 amended: the win credit awarded in a round sums to k times the table
\* value for the k tied winners: exactly 1 for one or two winners, 1.2 for
\* three or four, 0.2 k for five or more; so it is at most 1 when at most two
\* players (or exactly five) tie, and never more than 0.2 k.
C10_CreditTotalByTieSize ==
    [][SettlementStep
          => LET k == Cardinality(TopBidders(bets'))
                 total == CreditSum(players, players', Len(players))
             IN  /\ k <= 2 => total = WinUnit
                 /\ k \in {3, 4} => total = 12
                 /\ k >= 5 => total = 2 * k
                 /\ k \in {1, 2, 5} => total <= WinUnit]_vars

\* three players tied in the first round: 1.2 wins awarded in all
C10_Witness ==
    /\ status = "roundComplete"
    /\ currentRound = 1
    /\ Cardinality(TopBidders(lastRoundBets)) = 3
    /\ CreditSum([i \in PlayerIds(players) |-> [roundsWon |-> 0]], players, Len(players)) = 12

----------------------------------------------------------------------------
(* Total rounds.                                                           *)

\* the total-round policy: 5 rounds for two players, 7 for exactly three,
\* 9 for four or more
PolicyRounds(n) == IF n = 2 THEN 5 ELSE IF n = 3 THEN 7 ELSE 9

\* a start request is accepted
StartStep == status = "waiting" /\ status' = "betting"

C12_TotalRoundsFixedAfterStart ==
    roundsAtStart # Undefined => totalRounds = roundsAtStart

\* C12: a started game keeps the totalRounds it had at start until it is back
\* in the lobby; totalRounds changes only in an accepted join, which needs
\* status 'waiting' (a started game: after a reset) and sets it to the policy
\* value for the new number of players.  Bid, settlement, advance, reset,
\* timer and rejected requests leave it alone.
C12_TotalRoundsChangesOnlyOnJoin ==
    /\ [](status # "waiting" => totalRounds = roundsAtStart)
    /\ [][totalRounds' # totalRounds =>
             /\ status = "waiting"
             /\ status' = "waiting"
             /\ Len(players') = Len(players) + 1
             /\ totalRounds' = PolicyRounds(Len(players'))]_vars

\* a game started with two players and five rounds is back in the lobby
\* with a third player and seven rounds
C12_Witness ==
    /\ roundsAtStart = 5
    /\ status = "waiting"
    /\ Len(players) = 3
    /\ totalRounds = 7

----------------------------------------------------------------------------
(* End of the game.                                                        *)

\* some player of ps has three wins or more
HasThreeWins(ps) == \E i \in PlayerIds(ps) : ps[i].roundsWon >= 3 * WinUnit

\* C13: in All-Pay a settlement moves the game to gameComplete exactly when,
\* with the round's credits applied, some player has roundsWon >= 3 or
\* currentRound >= totalRounds; otherwise it moves it to roundComplete.
C13_AllPaySettlementEnds ==
    [][SettlementStep /\ gameMode = "all-pay" =>
          IF HasThreeWins(players') \/ currentRound >= totalRounds
          THEN status' = "gameComplete"
          ELSE status' = "roundComplete"]_vars

\* an All-Pay game ended by the settlement of its last round, nobody having
\* three wins
C13_Witness ==
    /\ gameMode = "all-pay"
    /\ status = "gameComplete"
    /\ currentRound = totalRounds
    /\ ~HasThreeWins(players)

\* C14: Standard and Vickrey games run the full schedule: the status is
\* gameComplete only when currentRound = totalRounds, and a settlement before
\* the last round leaves the game in roundComplete even when a player has
\* three wins or more.
C14_FullScheduleOutsideAllPay ==
    /\ [](gameMode # "all-pay" /\ status = "gameComplete" => currentRound = totalRounds)
    /\ [][SettlementStep /\ gameMode # "all-pay" /\ currentRound < totalRounds =>
             status' = "roundComplete"]_vars

\* a Vickrey game goes on to a next round with a player at three wins or more
C14_Witness ==
    /\ gameMode = "vickrey"
    /\ status = "betting"
    /\ HasThreeWins(players)

\* C15: in All-Pay, when a settlement before the last scheduled round leaves
\* a player with roundsWon >= 3, the game becomes gameComplete in that same
\* step and the overall winner is a player with roundsWon >= 3, whatever the
\* players' money is.
C15_AllPayThreeWinsEndsGame ==
    [][/\ SettlementStep
       /\ gameMode = "all-pay"
       /\ currentRound < totalRounds
       /\ HasThreeWins(players')
       => /\ status' = "gameComplete"
          /\ overallWinner' \in PlayerIds(players')
          /\ players'[overallWinner'].roundsWon >= 3 * WinUnit]_vars

\* an All-Pay game ended before its last round, won by a player with three
\* wins who has less money than another player
C15_Witness ==
    /\ gameMode = "all-pay"
    /\ status = "gameComplete"
    /\ currentRound < totalRounds
    /\ overallWinner \in PlayerIds(players)
    /\ players[overallWinner].roundsWon >= 3 * WinUnit
    /\ \E j \in PlayerIds(players) : players[j].money > players[overallWinner].money

\* the players with the greatest roundsWon
MostWins == {i \in PlayerIds(players) :
                \A j \in PlayerIds(players) : players[j].roundsWon <= players[i].roundsWon}

\* the game is complete and not by the three-win rule of All-Pay
CompleteWithoutThreeWins ==
    /\ status = "gameComplete"
    /\ ~(gameMode = "all-pay" /\ HasThreeWins(players))

\* C16: when the game completes without the three-win rule of All-Pay
\* applying, the overall winner is the one player with the greatest roundsWon
\* if there is one, and otherwise one of the players tied on the greatest
\* roundsWon whose money is the greatest among them.
C16_MostWinsThenMoney ==
    CompleteWithoutThreeWins =>
        /\ overallWinner \in MostWins
        /\ \A j \in MostWins : players[j].money <= players[overallWinner].money

\* a complete game whose two players are tied on the greatest roundsWon with
\* different money
C16_Witness ==
    /\ CompleteWithoutThreeWins
    /\ Cardinality(MostWins) = 2
    /\ overallWinner \in MostWins
    /\ \E j \in MostWins : players[j].money < players[overallWinner].money

\* the players tied on the greatest roundsWon who have the greatest money
\* among them
RichestOfMostWins ==
    {i \in MostWins : \A j \in MostWins : players[j].money <= players[i].money}

\* several players tie on both the greatest roundsWon and the greatest money
\* of a game completed without the three-win rule
TiedOnWinsAndMoney ==
    CompleteWithoutThreeWins /\ Cardinality(RichestOfMostWins) > 1

C18_OverallWinnerLifecycle ==
    /\ [](status # "gameComplete" => overallWinner = NoPlayer)
    /\ [](status = "gameComplete" => overallWinner \in PlayerIds(players))
    /\ [][status # "gameComplete" /\ status' = "gameComplete" =>
             overallWinner = NoPlayer /\ overallWinner' \in PlayerIds(players')]_vars
    /\ [][status = "gameComplete" /\ status' = "gameComplete" =>
             overallWinner' = overallWinner]_vars
    /\ [][overallWinner' # overallWinner =>
             (status = "gameComplete") # (status' = "gameComplete")]_vars

\* a complete game whose second player is the overall winner has refused a
\* request
C18_Witness ==
    /\ status = "gameComplete"
    /\ overallWinner = 2
    /\ response = "rejected"

----------------------------------------------------------------------------
(* Reset.                                                                  *)

\* a step of the reset handler that accepts the request
ResetStep == \E c \in Callers(UsernamesThree) : IsHost(c) /\ ResetGame(c)

\* C19: after a successful reset every player has money 100 and roundsWon 0,
\* the status is 'waiting', currentRound is 0, the ledger is empty, and the
\* list of players (identities, names, host flag, join order) is what it was
\* before.
C19_ResetRestoresLobby ==
    [][ResetStep =>
          /\ players' = [i \in PlayerIds(players) |->
                            [name |-> players[i].name, host |-> players[i].host,
                             money |-> 100, roundsWon |-> 0]]
          /\ status' = "waiting"
          /\ currentRound' = 0
          /\ bets' = EmptyMap]_vars

\* a game that was started and has settled a round is back in the lobby, its
\* two players at money 100 and no wins
C19_Witness ==
    /\ status = "waiting"
    /\ currentRound = 0
    /\ roundsAtStart # Undefined
    /\ timers > 0
    /\ response = "ok"
    /\ Len(players) = 2
    /\ \A i \in PlayerIds(players) : players[i].money = 100 /\ players[i].roundsWon = 0

\* C20: a successful reset clears all the cached round-result and settlement
\* fields: the round winners, the last round's bids, the actual payments, the
\* second-highest bid, the third-highest bid, the display flag and the
\* overall winner hold their unset or empty values.
C20_ResetClearsRoundResults ==
    [][ResetStep =>
          /\ roundWinners' = Null
          /\ lastRoundBets' = EmptyMap
          /\ actualPayments' = EmptyMap
          /\ secondHighestBid' = Undefined
          /\ thirdHighestBid' = Undefined
          /\ showRoundResults' = FALSE
          /\ overallWinner' = NoPlayer]_vars

----------------------------------------------------------------------------
(* Validation of the requests.                                             *)

\* C21: a start request succeeds only when the caller is the host, the game
\* has at least 2 players and the status is 'waiting'; on success the status
\* becomes 'betting', currentRound becomes 1 and the ledger is empty; in
\* every other case the request is rejected and the game is unchanged.
C21_StartValidation ==
    [][\A c \in Callers(UsernamesThree) :
          StartGame(c) =>
             IF IsHost(c) /\ Len(players) >= 2 /\ status = "waiting"
             THEN /\ status' = "betting"
                  /\ currentRound' = 1
                  /\ bets' = EmptyMap
                  /\ response' = "ok"
             ELSE /\ UNCHANGED gameVars
                  /\ response' = "rejected"]_vars

\* the game has just been started
C21_Witness ==
    /\ status = "betting"
    /\ currentRound = 1
    /\ bets = EmptyMap
    /\ response = "ok"

\* the names of the players are pairwise distinct
DistinctNames ==
    \A i, j \in PlayerIds(players) : players[i].name = players[j].name => i = j

\* C22: a join request is rejected with no change of the game when the
\* status is not 'waiting' or the name is the name of a player of the game;
\* an accepted join appends exactly one non-host player with money 100 and
\* roundsWon 0 at the end of the player list; the names of the players of a
\* game are pairwise distinct in every reachable state.
C22_JoinValidation ==
    /\ []DistinctNames
    /\ [][\A name \in {Blank} \cup UsernamesWide :
             JoinGame(name) =>
                IF status # "waiting" \/ NameTaken(name)
                THEN /\ UNCHANGED gameVars
                     /\ response' = "rejected"
                ELSE response' = "ok" =>
                        players' = Append(players, [name |-> name, money |-> 100,
                                                    roundsWon |-> 0, host |-> FALSE])]_vars
    /\ [][players' # players /\ status' = status =>
             /\ Len(players') = Len(players) + 1
             /\ \A i \in PlayerIds(players) : players'[i] = players[i]
             /\ players'[Len(players')].money = 100
             /\ players'[Len(players')].roundsWon = 0
             /\ ~players'[Len(players')].host
             /\ ~NameTaken(players'[Len(players')].name)
             /\ status = "waiting"]_vars

\* a third player has joined a game that has settled a round and is back in
\* the lobby
C22_Witness ==
    /\ status = "waiting"
    /\ timers > 0
    /\ Len(players) = 3
    /\ players[3] = [name |-> 3, money |-> 100, roundsWon |-> 0, host |-> FALSE]
    /\ response = "ok"

\* the termination predicate: three wins in All-Pay, or the last scheduled
\* round
TerminationPredicate ==
    \/ gameMode = "all-pay" /\ HasThreeWins(players)
    \/ currentRound >= totalRounds

\* C23: an advance request is rejected with no change of the game unless the
\* caller is the host and the status is 'roundComplete'; when it is accepted
\* and the termination predicate is false, currentRound increases by exactly
\* 1, the status becomes 'betting', the ledger is emptied and the display
\* flag is cleared, while every player's money and roundsWon are unchanged.
C23_AdvanceValidation ==
    [][\A c \in Callers(UsernamesThree) :
          NextRound(c) =>
             IF ~(IsHost(c) /\ status = "roundComplete")
             THEN /\ UNCHANGED gameVars
                  /\ response' = "rejected"
             ELSE /\ response' = "ok"
                  /\ ~TerminationPredicate =>
                        /\ currentRound' = currentRound + 1
                        /\ status' = "betting"
                        /\ bets' = EmptyMap
                        /\ showRoundResults' = FALSE
                        /\ players' = players]_vars

\* the host has advanced the game to its second round, the first round's
\* payment still taken from a player's money
C23_Witness ==
    /\ status = "betting"
    /\ currentRound = 2
    /\ bets = EmptyMap
    /\ response = "ok"
    /\ ~showRoundResults
    /\ \E i \in PlayerIds(players) : players[i].money < 100 /\ players[i].roundsWon > 0

\* C24: a reset request fails only when the caller is not the host: the
\* host's reset is accepted in every status, also in a betting round with
\* bids recorded, and leaves the status 'waiting'; anyone else's is rejected
\* and the game is unchanged.
C24_ResetValidation ==
    /\ [](\E c \in PlayerIds(players) :
             ENABLED (ResetGame(c) /\ response' = "ok" /\ status' = "waiting"))
    /\ [][\A c \in Callers(UsernamesThree) :
             ResetGame(c) =>
                IF IsHost(c)
                THEN /\ status' = "waiting"
                     /\ response' = "ok"
                ELSE /\ UNCHANGED gameVars
                     /\ response' = "rejected"]_vars

\* a game that was started is back in the lobby by a reset made before any
\* settlement or after the timers of its settlements have fired
C24_Witness ==
    /\ status = "waiting"
    /\ roundsAtStart # Undefined
    /\ timers = 0
    /\ response = "ok"
    /\ bets = EmptyMap
    /\ Len(players) = 2

----------------------------------------------------------------------------
(* The host and the round counter.                                         *)

\* C25: in every reachable state the game has exactly one host, the host is
\* the first player in join order, and no operation transfers or removes the
\* host flag: every player stays in the list with the flag it had.
C25_OneHost ==
    /\ [](\A i \in PlayerIds(players) : players[i].host <=> i = 1)
    /\ [][/\ Len(players') >= Len(players)
          /\ \A i \in PlayerIds(players) : players'[i].host = players[i].host]_vars

\* a game of three players has been played to its end: the first player is
\* the host, the others are not
C25_Witness ==
    /\ status = "gameComplete"
    /\ Len(players) = 3
    /\ players[1].host
    /\ ~players[2].host
    /\ ~players[3].host

\* C26 as claimed: currentRound only increases: no operation (start, bid,
\* advance, reset, join) ever makes it smaller than it was.
C26_CurrentRoundNeverDecreases ==
    [][currentRound' >= currentRound]_vars

\* C26: currentRound is made smaller only by an accepted reset, which sets it
\* to 0; every other change of it is an increase by exactly 1, made by an
\* accepted start or advance.
C26_CurrentRoundDecreasesOnlyOnReset ==
    /\ [][currentRound' < currentRound => ResetStep /\ currentRound' = 0]_vars
    /\ [][currentRound' > currentRound =>
             /\ currentRound' = currentRound + 1
             /\ status \in {"waiting", "roundComplete"}
             /\ status' = "betting"]_vars

\* a game that has settled two rounds, and so was in its second round or
\* later, is back in the lobby at round 0
C26_Witness ==
    /\ status = "waiting"
    /\ currentRound = 0
    /\ timers = 2
    /\ roundsAtStart # Undefined

\* C27: in every reachable state whose status is not gameComplete,
\* currentRound <= totalRounds, and currentRound is 0 exactly when the status
\* is 'waiting'.
C27_CurrentRoundWithinSchedule ==
    /\ status # "gameComplete" => currentRound <= totalRounds
    /\ currentRound = 0 <=> status = "waiting"

\* the bids of the last scheduled round are being collected
C27_Witness ==
    /\ status = "betting"
    /\ currentRound = totalRounds
    /\ bets # EmptyMap

----------------------------------------------------------------------------
(* Progress.                                                               *)

\* C28: in a started game that nobody resets, in which every player who has
\* not bid eventually has a valid bid accepted and the host eventually
\* advances each completed round, the game eventually reaches gameComplete
\* with an overall winner, after at most totalRounds settlements: every
\* settlement is that of a round 1..totalRounds and every new betting round
\* is the next round.
C28_GameEventuallyCompletes ==
    /\ (status = "betting") ~>
           (status = "gameComplete" /\ overallWinner \in PlayerIds(players))
    /\ [][SettlementStep => currentRound \in 1..totalRounds]_vars
    /\ [][status = "roundComplete" /\ status' = "betting" =>
             currentRound' = currentRound + 1]_vars

\* a game that was never reset is complete after the settlement of its last
\* scheduled round, with an overall winner
C28_Witness ==
    /\ status = "gameComplete"
    /\ currentRound = totalRounds
    /\ overallWinner \in PlayerIds(players)
    /\ timers = MaxTimers

----------------------------------------------------------------------------
(* The ledger and the recorded payments.                                   *)

\* C29: within a round a player has at most one recorded bid and a recorded
\* bid never changes value; entries leave the ledger only when start,
\* advance or reset empties it, so while the status is roundComplete or
\* gameComplete the ledger equals the snapshot of the last round's bids.
C29_LedgerImmutable ==
    /\ [](DOMAIN bets \subseteq PlayerIds(players))
    /\ [](status \in {"roundComplete", "gameComplete"} => bets = lastRoundBets)
    /\ [][\A i \in DOMAIN bets \cap DOMAIN bets' : bets'[i] = bets[i]]_vars
    /\ [][DOMAIN bets \ DOMAIN bets' # {} =>
             /\ bets' = EmptyMap
             /\ \/ status = "waiting" /\ status' = "betting"
                \/ status = "roundComplete" /\ status' = "betting"
                \/ ResetStep]_vars

\* a complete game keeps the closed ledger of its last round after refusing
\* a request
C29_Witness ==
    /\ status = "gameComplete"
    /\ bets # EmptyMap
    /\ bets = lastRoundBets
    /\ response = "rejected"

\* C30: after every settlement, in every mode, the recorded actual payment
\* of each player is the amount by which the player's money decreased in the
\* settlement, lies between 0 and the player's own bid of the round, and is
\* 0 for every non-winner outside All-Pay.
C30_RecordedPayments ==
    [][SettlementStep =>
          /\ DOMAIN actualPayments' = PlayerIds(players)
          /\ \A i \in PlayerIds(players) :
                /\ actualPayments'[i] = Paid(i)
                /\ 0 <= actualPayments'[i]
                /\ actualPayments'[i] <= bets'[i]
                /\ gameMode # "all-pay" /\ i \notin TopBidders(bets') =>
                      actualPayments'[i] = 0]_vars

\* a Vickrey round of three players settled on a tie: the two winners have
\* paid the third bid, less than their own, and the third bidder nothing
C30_Witness ==
    /\ gameMode = "vickrey"
    /\ status = "roundComplete"
    /\ Len(players) = 3
    /\ Cardinality(TopBidders(lastRoundBets)) = 2
    /\ \A i \in TopBidders(lastRoundBets) :
          /\ actualPayments[i] > 0
          /\ actualPayments[i] < lastRoundBets[i]
          /\ players[i].money = 100 - actualPayments[i]
    /\ \E i \in PlayerIds(players) \ TopBidders(lastRoundBets) :
          /\ lastRoundBets[i] > 0
          /\ actualPayments[i] = 0
          /\ players[i].money = 100

----------------------------------------------------------------------------
(* Ranking of the bids.                                                    *)

\* the bids of ledger b that are strictly less than its greatest bid
LowerBids(b) == {b[i] : i \in DOMAIN b} \ {TopBid(b)}

\* C31: after every settlement the recorded round winners are exactly the
\* players whose bid is the maximum bid of the round, each listed once, and
\* the recorded second-highest bid is the greatest bid strictly less than
\* that maximum, or undefined when all bids are equal.
C31_WinnersAndSecondBid ==
    [][SettlementStep =>
          /\ SeqRange(roundWinners') = TopBidders(bets')
          /\ Len(roundWinners') = Cardinality(TopBidders(bets'))
          /\ secondHighestBid' = IF LowerBids(bets') = {} THEN Undefined
                                 ELSE SetMax(LowerBids(bets'))]_vars

\* a round of three different bids is settled: one winner, and the middle
\* bid recorded as second-highest
C31_Witness ==
    /\ status = "roundComplete"
    /\ {lastRoundBets[i] : i \in DOMAIN lastRoundBets} = {10, 20, 30}
    /\ Len(roundWinners) = 1
    /\ lastRoundBets[roundWinners[1]] = 30
    /\ secondHighestBid = 20

----------------------------------------------------------------------------
(* Frame of the operations.                                                *)

\* C32: a player's money and roundsWon change only in the settlement step of
\* the bid that closes the ledger and in a reset: join, start, advance, state
\* queries, a bid that does not close the ledger, the timer and every
\* rejected request leave the money and roundsWon of all players unchanged,
\* and no step removes or reorders players.
C32_BalancesFrame ==
    /\ [][(\E i \in PlayerIds(players) :
              \/ players'[i].money # players[i].money
              \/ players'[i].roundsWon # players[i].roundsWon)
          => SettlementStep \/ ResetStep]_vars
    /\ [][/\ Len(players') >= Len(players)
          /\ \A i \in PlayerIds(players) : players'[i].name = players[i].name]_vars
    /\ [][\A c \in Callers(UsernamesThree) :
             GetState(c) \/ StartGame(c) \/ NextRound(c) => players' = players]_vars

\* in the second round of a game a request has been refused; the players
\* still have the money and the wins the first settlement left them
C32_Witness ==
    /\ status = "betting"
    /\ currentRound = 2
    /\ response = "rejected"
    /\ \E i \in PlayerIds(players) : players[i].money < 100
    /\ \E i \in PlayerIds(players) : players[i].roundsWon > 0

----------------------------------------------------------------------------
(* Branches the requests never take.                                       *)

\* C33: whenever the status is roundComplete the termination predicate is
\* false (in All-Pay no player has roundsWon >= 3, and in every mode
\* currentRound < totalRounds), so an accepted advance always goes to
\* 'betting' and never to gameComplete: the game enters gameComplete only in
\* the settlement step of a bid.
C33_AdvanceNeverEndsGame ==
    /\ [](status = "roundComplete" =>
             /\ ~TerminationPredicate
             /\ currentRound < totalRounds
             /\ gameMode = "all-pay" => ~HasThreeWins(players))
    /\ [][\A c \in Callers(UsernamesThree) :
             NextRound(c) /\ response' = "ok" => status' = "betting"]_vars
    /\ [][status # "gameComplete" /\ status' = "gameComplete" => SettlementStep]_vars

\* the host's advance has opened the last scheduled round
C33_Witness ==
    /\ status = "betting"
    /\ currentRound = totalRounds
    /\ bets = EmptyMap
    /\ response = "ok"
    /\ overallWinner = NoPlayer

\* C34: in every settlement where the third-highest bid is defined it equals
\* the second-highest bid, so the payment of tied Vickrey winners,
\* 'third-highest, else second-highest, else 0', is the second-highest bid
\* if that is defined and 0 otherwise.
C34_ThirdBidIsSecondBid ==
    [][SettlementStep =>
          /\ thirdHighestBid' # Undefined => thirdHighestBid' = secondHighestBid'
          /\ gameMode = "vickrey" /\ Cardinality(TopBidders(bets')) > 1 =>
                \A i \in TopBidders(bets') :
                   Paid(i) = IF secondHighestBid' # Undefined
                             THEN secondHighestBid' ELSE 0]_vars

\* a Vickrey round of three players settled on a tie of two, the third bid
\* recorded both as third-highest and as second-highest
C34_Witness ==
    /\ gameMode = "vickrey"
    /\ status = "roundComplete"
    /\ Cardinality(TopBidders(lastRoundBets)) = 2
    /\ thirdHighestBid = 20
    /\ secondHighestBid = 20

\* C35: every settlement a bid request reaches has at least one round
\* winner: the ledger it settles holds a bid of every one of at least two
\* players, so the branch of completeRound for an empty ranking is not taken;
\* and when every player bid 0, every player is a round winner, gets the
\* fractional credit of that tie size and pays 0.
C35_SettlementHasWinner ==
    [][SettlementStep =>
          /\ Len(players) >= 2
          /\ DOMAIN bets' = PlayerIds(players)
          /\ Len(roundWinners') >= 1
          /\ (\A i \in PlayerIds(players) : bets'[i] = 0) =>
                /\ SeqRange(roundWinners') = PlayerIds(players)
                /\ \A i \in PlayerIds(players) :
                      /\ Credited(i) = TableCredit(Len(players))
                      /\ Paid(i) = 0]_vars

\* a round of five players who all bid 0 is settled: five winners, a credit
\* of 0.2 each, nobody paid
C35_Witness ==
    /\ status = "roundComplete"
    /\ Len(players) = 5
    /\ \A i \in PlayerIds(players) :
          /\ lastRoundBets[i] = 0
          /\ players[i].roundsWon = 2
          /\ players[i].money = StartMoney
    /\ Len(roundWinners) = 5

----------------------------------------------------------------------------
(* The overall winner and the round wins.                                  *)

\* C36: in every mode and in every gameComplete state the overall winner has
\* at least as many round wins as every other player.  Violated in All-Pay
\* games of four players: two players tied in the last round cross three
\* wins together and the first of them in join order is taken.
C36_WinnerHasMostWins ==
    status = "gameComplete" =>
       /\ overallWinner \in PlayerIds(players)
       /\ \A i \in PlayerIds(players) :
             players[overallWinner].roundsWon >= players[i].roundsWon

----------------------------------------------------------------------------
(* Sealed bids.                                                            *)

\* the ledgers that differ from game.bets at most in the amounts that the
\* players other than c have bid: the same players have bid, and c the same
Resealed(c) ==
    {b \in [DOMAIN bets -> AmountsRound] : c \in DOMAIN bets => b[c] = bets[c]}

\* C37: bids are sealed: while the status is 'betting', the state snapshot a
\* player gets does not depend on the amounts the other players have bid in
\* the current round, only on who has bid; and a bid that does not close the
\* round changes nothing of the game but the ledger, so two runs that differ
\* only in those amounts give the same snapshots until the round closes.
C37_SealedBids ==
    /\ [](status = "betting" =>
             \A c \in PlayerIds(players) : \A b \in Resealed(c) :
                GameStateOf(c, b) = GameState(c))
    /\ [][status = "betting" /\ status' = "betting" =>
             UNCHANGED <<gameMode, players, currentRound, totalRounds, roundWinners,
                         overallWinner, lastRoundBets, secondHighestBid,
                         thirdHighestBid, actualPayments>>]_vars

\* player 1 asks for the state while the two other players of the round have
\* bid different amounts and player 1 has not
C37_Witness ==
    /\ status = "betting"
    /\ Len(players) = 3
    /\ DOMAIN bets = {2, 3}
    /\ bets[2] = 10
    /\ bets[3] = 50
    /\ response = "ok"
    /\ GameState(1).myBet = Undefined
    /\ GameState(1).players[2].hasBet

----------------------------------------------------------------------------
(* The hide-results timers.                                                *)

\* C38: the hide-results timer a settlement schedules hides the results of
\* that round only: it never sets showRoundResults to false while the
\* results of a later round are shown, which is the case when the oldest
\* pending timer fires with showRoundResults true and a timer of a later
\* settlement pending, and it changes no other field of the game.  Violated:
\* the timers are never cancelled, so the timer of a round that was advanced
\* and settled again within its delay hides the results of the next round.
C38_TimerHidesOwnRound ==
    [][HideRoundResults =>
          /\ ~(showRoundResults /\ timers > 1)
          /\ UNCHANGED <<gameMode, players, currentRound, totalRounds, status, bets,
                         roundWinners, overallWinner, lastRoundBets,
                         secondHighestBid, thirdHighestBid, actualPayments>>]_vars

----------------------------------------------------------------------------
(* Settlement and the order of the bids.                                   *)

\* C39: the settlement does not depend on the order in which the bids came
\* in: whichever order the entries of the closed ledger are enumerated in,
\* the ranking gives the money and roundsWon of every player, the set of
\* round winners, the recorded payments and bids, the status and the overall
\* winner that the settlement step stored.
C39_OrderIndependent ==
    [][SettlementStep =>
          \A order \in Permutations(DOMAIN bets') :
             LET bids == SortDesc(Entries(bets', order))
                 ps == SettledPlayers(gameMode, players, bets', bids)
                 ends == shouldEndGame(gameMode, ps, currentRound, totalRounds)
             IN  /\ players' = ps
                 /\ SeqRange(roundWinners') = SeqRange(HighestBidders(bids))
                 /\ actualPayments' = SettledPayments(gameMode, players, bets', bids)
                 /\ secondHighestBid' = SecondHighestBid(bids)
                 /\ thirdHighestBid' = ThirdHighestBid(bids)
                 /\ status' = IF ends THEN "gameComplete" ELSE "roundComplete"
                 /\ overallWinner' = IF ends THEN determineOverallWinner(gameMode, ps)
                                     ELSE overallWinner]_vars

\* a game has ended with a round in which both players bid 30: the ranking
\* lists them in the order of their bids, the credit is 0.5 each either way
C39_Witness ==
    /\ status = "gameComplete"
    /\ Len(players) = 2
    /\ lastRoundBets[1] = 30
    /\ lastRoundBets[2] = 30
    /\ SeqRange(roundWinners) = {1, 2}
    /\ overallWinner # NoPlayer

----------------------------------------------------------------------------
(* Closing a round.                                                        *)

\* C40: a betting round can always be closed: while the status is 'betting',
\* every player who has not bid has a bid that is accepted, the bid of 0,
\* whatever money they have left, 0 included.
C40_RoundCanBeClosed ==
    status = "betting" =>
       \A c \in PlayerIds(players) \ DOMAIN bets :
          /\ BidAcceptable(c, 0)
          /\ ENABLED (/\ PlaceBid(c, 0)
                      /\ response' = "ok"
                      /\ bets' = RecordBid(bets, c, 0))

\* a player who has no money left has bid 0 in a later round, and the bid
\* was accepted
C40_Witness ==
    /\ status = "betting"
    /\ currentRound > 1
    /\ response = "ok"
    /\ \E c \in DOMAIN bets : players[c].money = 0 /\ bets[c] = 0

====
